---------------------------- MODULE Spec2Model ----------------------------
(***************************************************************************)
(* Model of the voxel mesher (src/src/lib.rs): greedy_mesh with draw_quad, *)
(* and the VoxelMesh binary codec (encode / decode).                       *)
(*                                                                         *)
(* Vectors (IVec3, USizeVec3, Vec3) are 3-tuples; the component of axis a  *)
(* (0, 1, 2) is the tuple's element a + 1.  Rust slices and Vecs are       *)
(* sequences; the element at Rust index n is the sequence's element n + 1. *)
(*                                                                         *)
(* Vertex positions of the mesher are kept exactly, in half cells and      *)
(* before the multiplication by block_size: the model's position of a      *)
(* corner is 2 * (corner - dims * 0.5), an integer vector.  The lattice    *)
(* coordinate of a vertex is therefore (position + dims) / 2.              *)
(***************************************************************************)
EXTENDS Integers, Sequences, FiniteSets, TLC

VARIABLES
    rgba_data,    \* greedy_mesh: the borrowed grid, a sequence of u32
    dims,         \* greedy_mesh: <<X, Y, Z>>
    vertices,     \* the caller-owned vertex buffer
    indices,      \* the caller-owned index buffer
    pc,           \* "idle" | "done" (greedy_mesh returned true) | "panic"
    quad_log,     \* history: for every quad drawn, its axis d and its neg_d flag
    k0,           \* history: Len(vertices) when greedy_mesh was called
    i0,           \* history: Len(indices) when greedy_mesh was called
    mesh,         \* codec: the VoxelMesh handed to encode
    data,         \* codec: the byte buffer handed to decode
    result,       \* codec: what decode returned
    cpc,          \* codec: "off" | "mesh" | "bytes" | "decoded"
    tampered      \* codec history: what was done to the encoded bytes

vars == <<rgba_data, dims, vertices, indices, pc, quad_log, k0, i0,
          mesh, data, result, cpc, tampered>>

---------------------------------------------------------------------------
(* Bounds of the model *)

\* largest extent of the grid along one axis
MaxDim == 2
\* largest number of cells X * Y * Z of a grid
MaxCells == 7
\* largest number of cells of a grid in SpecAppend, where the caller's buffers
\* may hold something before the call
MaxCellsAppend == 4

\* largest number of vertices of a mesh handed to encode
MaxVerts == 1
\* largest number of indices of a mesh handed to encode
MaxIdx == 1

\* The nonzero colours of the voxels.  greedy_mesh only tests a colour for
\* being 0 and two mask cells for being equal, so two colours reach every
\* branch.
Colours == {1, 2}

---------------------------------------------------------------------------
(* Vector helpers *)

ZERO == <<0, 0, 0>>

Get3(vec, a) == vec[a + 1]

Set3(vec, a, val) == [vec EXCEPT ![a + 1] = val]

Add3(p, q) == <<p[1] + q[1], p[2] + q[2], p[3] + q[3]>>

\* a function on 1..n as the sequence of its values
AsSeq(f) == f \o <<>>

\* Vec3::new(x.z, x.y, x.x)
SwizzleZYX(p) == <<p[3], p[2], p[1]>>

---------------------------------------------------------------------------
(* draw_quad *)

Vertex_new(position, colour) == [position |-> position, rgba |-> colour]

\* the six indices of the quad whose first vertex is k
QuadIndices(k) == <<k, k + 1, k + 2, k + 2, k + 3, k>>

\* draw_quad with the last index one too far
draw_quad_last_index_off(verts, inds, quad) ==
    LET k == Len(verts)
    IN  [vertices |-> verts \o [c \in 1..4 |-> Vertex_new(quad.corners[c], quad.colour)],
         indices  |-> inds \o <<k, k + 1, k + 2, k + 2, k + 3, k + 4>>]

\* draw_quad with k taken as 0 instead of the length of the vertex buffer
draw_quad_from_zero(verts, inds, quad) ==
    [vertices |-> verts \o [c \in 1..4 |-> Vertex_new(quad.corners[c], quad.colour)],
     indices  |-> inds \o QuadIndices(0)]

\* draw_quad: returns the two buffers after the call
draw_quad(verts, inds, quad) ==
    LET k == Len(verts)
    IN  [vertices |-> verts \o [c \in 1..4 |-> Vertex_new(quad.corners[c], quad.colour)],
         indices  |-> inds \o QuadIndices(k)]

---------------------------------------------------------------------------
(* greedy_mesh: mask construction *)

\* rgba_data[(r.z * idims.y * idims.x + r.y * idims.x + r.x) as usize]
GridAt(grid, dm, r) == grid[r[3] * dm[2] * dm[1] + r[2] * dm[1] + r[1] + 1]

block_current(grid, dm, r) ==
    IF r[1] < 0 \/ r[2] < 0 \/ r[3] < 0 THEN 0 ELSE GridAt(grid, dm, r)

block_compare(grid, dm, dd, xx) ==
    LET r == Set3(xx, dd, Get3(xx, dd) + 1)
    IN  IF r[1] = dm[1] \/ r[2] = dm[2] \/ r[3] = dm[3] THEN 0 ELSE GridAt(grid, dm, r)

\* the match on (block_current == 0, block_compare == 0)
MaskCell(cur, cmp) ==
    IF cur = 0 /\ cmp # 0 THEN <<cmp, TRUE>>
    ELSE IF cur # 0 /\ cmp = 0 THEN <<cur, FALSE>>
    ELSE <<0, FALSE>>

\* The mask after the x[v] / x[u] loops at sweep position xx[d]: cell n
\* (0-based) is written for x[u] = n % dims[u], x[v] = n / dims[u]; the cells
\* from dims[u] * dims[v] on keep their old content.
BuildMask(grid, dm, dd, xx, mask) ==
    LET u == (dd + 1) % 3
        v == (dd + 2) % 3
    IN  AsSeq([m \in 1..Len(mask) |->
            IF m <= dm[u + 1] * dm[v + 1]
            THEN LET r == Set3(Set3(xx, u, (m - 1) % dm[u + 1]), v, (m - 1) \div dm[u + 1])
                 IN  MaskCell(block_current(grid, dm, r), block_compare(grid, dm, dd, r))
            ELSE mask[m]])

---------------------------------------------------------------------------
(* greedy_mesh: greedy rectangle merge *)

\* an out-of-bounds index: the Rust index operation panics
PANIC == -1

\* let mut w = 1; while i + w < dims.x && block_mask[n + w] == (kind, neg_d) { w += 1; }
RECURSIVE Width(_, _, _, _, _, _)
Width(mask, dm, n, i, seed, w) ==
    IF i + w < dm[1]
    THEN IF n + w >= Len(mask) THEN PANIC
         ELSE IF mask[n + w + 1] = seed THEN Width(mask, dm, n, i, seed, w + 1)
         ELSE w
    ELSE w

\* for k in 0..w: "ok" when every cell of the row matches, "hole" at the first
\* mismatch, "panic" when an index is past the mask before a mismatch is seen
RECURSIVE RowScan(_, _, _, _, _, _, _)
RowScan(mask, dm, n, seed, w, h, k) ==
    IF k >= w THEN "ok"
    ELSE IF n + k + h * dm[1] >= Len(mask) THEN "panic"
    ELSE IF mask[n + k + h * dm[1] + 1] # seed THEN "hole"
    ELSE RowScan(mask, dm, n, seed, w, h, k + 1)

\* let mut h = 1; while j + h < dims.y { ... h += 1; }
RECURSIVE Height(_, _, _, _, _, _, _)
Height(mask, dm, n, j, seed, w, h) ==
    IF j + h < dm[2]
    THEN LET row == RowScan(mask, dm, n, seed, w, h, 0)
         IN  IF row = "panic" THEN PANIC
             ELSE IF row = "hole" THEN h
             ELSE Height(mask, dm, n, j, seed, w, h + 1)
    ELSE h

\* The four corners of the quad, in half cells after centering: x, du and dv
\* as f32 vectors, swizzled when d == 1, then x -= dims * 0.5.
QuadCorners(dm, dd, xx, w, h, neg_d) ==
    LET u   == (dd + 1) % 3
        v   == (dd + 2) % 3
        du0 == Set3(ZERO, u, w)
        dv0 == Set3(ZERO, v, h)
        xs  == IF dd = 1 THEN SwizzleZYX(xx) ELSE xx
        du1 == IF dd = 1 THEN SwizzleZYX(du0) ELSE du0
        dv1 == IF dd = 1 THEN SwizzleZYX(dv0) ELSE dv0
        o   == <<2 * xs[1] - dm[1], 2 * xs[2] - dm[2], 2 * xs[3] - dm[3]>>
        du  == <<2 * du1[1], 2 * du1[2], 2 * du1[3]>>
        dv  == <<2 * dv1[1], 2 * dv1[2], 2 * dv1[3]>>
    IN  IF ~neg_d
        THEN <<o, Add3(o, du), Add3(Add3(o, du), dv), Add3(o, dv)>>
        ELSE <<Add3(o, dv), Add3(Add3(o, du), dv), Add3(o, du), o>>

\* for h in 0..h { for w in 0..w { block_mask[n+w+h*dims.x].0 = 0; } }
\* (every cell of the rectangle was read by Width or Height, so it is in bounds)
ClearMask(mask, dm, n, w, h) ==
    AsSeq([m \in 1..Len(mask) |->
        IF \E hh \in 0..(h - 1) : (m - 1) - (n + hh * dm[1]) \in 0..(w - 1)
        THEN <<0, mask[m][2]>>
        ELSE mask[m]])

\* The merge scan of one slice, from the loop state s on:
\*   for j in 0..dims.x { let mut i = 0; while i < dims.y { ... } }
\* s.panic is set when an index operation is out of bounds.
RECURSIVE MergeScan(_, _, _)
MergeScan(dm, dd, s) ==
    IF s.j >= dm[1] THEN s
    ELSE IF s.i >= dm[2] THEN MergeScan(dm, dd, [s EXCEPT !.j = @ + 1, !.i = 0])
    ELSE IF s.n >= Len(s.mask) THEN [s EXCEPT !.panic = TRUE]
    ELSE IF s.mask[s.n + 1][1] = 0
         THEN MergeScan(dm, dd, [s EXCEPT !.i = @ + 1, !.n = @ + 1])
    ELSE
        LET seed == s.mask[s.n + 1]
            w    == Width(s.mask, dm, s.n, s.i, seed, 1)
            h    == IF w = PANIC THEN PANIC ELSE Height(s.mask, dm, s.n, s.j, seed, w, 1)
        IN  IF w = PANIC \/ h = PANIC THEN [s EXCEPT !.panic = TRUE]
            ELSE
              LET u    == (dd + 1) % 3
                  v    == (dd + 2) % 3
                  xx   == Set3(Set3(s.x, u, s.i), v, s.j)
                  quad == [colour |-> seed[1],
                           corners |-> QuadCorners(dm, dd, xx, w, h, seed[2])]
                  out  == draw_quad(s.vertices, s.indices, quad)
              IN  MergeScan(dm, dd,
                     [s EXCEPT !.x = xx,
                               !.vertices = out.vertices,
                               !.indices = out.indices,
                               !.log = Append(@, [d |-> dd, neg_d |-> seed[2]]),
                               !.mask = ClearMask(s.mask, dm, s.n, w, h),
                               !.i = @ + w,
                               !.n = @ + w])

\* One iteration of `while x[d] < idims[d]`: the mask of the slice, x[d] += 1,
\* and the merge scan of the slice.
SliceResult(grid, dm, dd, xx, mask, verts, inds, log) ==
    LET u  == (dd + 1) % 3
        v  == (dd + 2) % 3
        m1 == BuildMask(grid, dm, dd, xx, mask)
        x1 == Set3(Set3(Set3(xx, v, dm[v + 1]), u, dm[u + 1]), dd, Get3(xx, dd) + 1)
    IN  MergeScan(dm, dd, [mask |-> m1, x |-> x1, n |-> 0, i |-> 0, j |-> 0,
                           vertices |-> verts, indices |-> inds, log |-> log,
                           panic |-> FALSE])

\* let mut block_mask = vec![(0u32, false); dims.x * dims.y * dims.z];
NewMask(dm) == AsSeq([m \in 1..(dm[1] * dm[2] * dm[3]) |-> <<0, FALSE>>])

\* The sweep from axis dd and loop state s on: `while x[d] < idims[d]` for
\* the slices of the axis, then the next axis with x = ZERO, x[d] = -1 and a
\* fresh mask; the sweep ends after axis 2, or when a slice panics.
RECURSIVE SweepFrom(_, _, _, _)
SweepFrom(grid, dm, dd, s) ==
    IF s.panic THEN s
    ELSE IF Get3(s.x, dd) < Get3(dm, dd)
         THEN SweepFrom(grid, dm, dd,
                 SliceResult(grid, dm, dd, s.x, s.mask, s.vertices, s.indices, s.log))
    ELSE IF dd < 2
         THEN SweepFrom(grid, dm, dd + 1,
                 [s EXCEPT !.x = Set3(ZERO, dd + 1, -1), !.mask = NewMask(dm)])
    ELSE s

\* greedy_mesh(rgba_data, dims, vertices, indices): the buffers and the quad
\* history after the call, and whether it panicked instead of returning true
greedy_mesh(grid, dm, verts, inds, log) ==
    SweepFrom(grid, dm, 0,
        [mask |-> NewMask(dm), x |-> Set3(ZERO, 0, -1), n |-> 0, i |-> 0, j |-> 0,
         vertices |-> verts, indices |-> inds, log |-> log, panic |-> FALSE])

---------------------------------------------------------------------------
(* The grids greedy_mesh is called with: rgba_data.len() == X * Y * Z, dims > 0 *)

DimsWithin(cells) ==
    {dm \in (1..MaxDim) \X (1..MaxDim) \X (1..MaxDim) : dm[1] * dm[2] * dm[3] <= cells}

GridsOf(dm) == [1..(dm[1] * dm[2] * dm[3]) -> {0} \cup Colours]

EmptyMesh == [vertices |-> <<>>, indices |-> <<>>]

\* Buffers the caller may already hold when it calls greedy_mesh: nothing,
\* the output of an earlier call (a single voxel), and buffers that are not
\* the output of greedy_mesh, one of them with an index past its vertices.
InitBuffers ==
    { EmptyMesh,
      [vertices |-> greedy_mesh(<<1>>, <<1, 1, 1>>, <<>>, <<>>, <<>>).vertices,
       indices  |-> greedy_mesh(<<1>>, <<1, 1, 1>>, <<>>, <<>>, <<>>).indices],
      [vertices |-> <<Vertex_new(<<0, 0, 0>>, 1)>>, indices |-> <<0, 0, 0>>],
      [vertices |-> <<>>, indices |-> <<7>>] }

---------------------------------------------------------------------------
(* The caller: it holds a grid and two buffers, and calls greedy_mesh *)

\* A call of greedy_mesh(&rgba_data, dims, &mut vertices, &mut indices).  The
\* assert_eq on the length holds for the grids of the model.  The call returns
\* true (pc = "done") or panics on an out-of-bounds index (pc = "panic"); the
\* quads drawn before a panic are already in the buffers.
Call ==
    /\ pc = "idle"
    /\ Len(rgba_data) = dims[1] * dims[2] * dims[3]
    /\ \E r \in {greedy_mesh(rgba_data, dims, vertices, indices, quad_log)} :
           /\ vertices' = r.vertices
           /\ indices' = r.indices
           /\ quad_log' = r.log
           /\ pc' = IF r.panic THEN "panic" ELSE "done"
    /\ k0' = Len(vertices)
    /\ i0' = Len(indices)
    /\ UNCHANGED <<rgba_data, dims, mesh, data, result, cpc, tampered>>

InitCodecOff ==
    /\ mesh = EmptyMesh
    /\ data = <<>>
    /\ result = [tag |-> "none"]
    /\ cpc = "off"
    /\ tampered = {}

InitMesher(cells, bufs) ==
    /\ dims \in DimsWithin(cells)
    /\ rgba_data \in GridsOf(dims)
    /\ \E buf \in bufs : vertices = buf.vertices /\ indices = buf.indices
    /\ pc = "idle"
    /\ quad_log = <<>>
    /\ k0 = Len(vertices)
    /\ i0 = Len(indices)

\* greedy_mesh on empty buffers, for every grid within the bounds
Init == InitMesher(MaxCells, {EmptyMesh}) /\ InitCodecOff

Next == Call

Spec == Init /\ [][Next]_vars

\* greedy_mesh on buffers that may hold something already
InitAppend == InitMesher(MaxCellsAppend, InitBuffers) /\ InitCodecOff

SpecAppend == InitAppend /\ [][Next]_vars

---------------------------------------------------------------------------
(* Reading the output of greedy_mesh *)

\* number of quads the call has drawn
NumQuads == (Len(vertices) - k0) \div 4

\* the lattice coordinate of a vertex position: before centering and scaling
Lattice(position) ==
    <<(position[1] + dims[1]) \div 2, (position[2] + dims[2]) \div 2,
      (position[3] + dims[3]) \div 2>>

\* the four corners of the q-th quad of the call (q from 1), in lattice coordinates
Corners(q) == [c \in 1..4 |-> Lattice(vertices[k0 + 4 * (q - 1) + c].position)]

\* the colour of the q-th quad: the rgba of its first vertex
QuadColour(q) == vertices[k0 + 4 * (q - 1) + 1].rgba

Sub3(p, q) == <<p[1] - q[1], p[2] - q[2], p[3] - q[3]>>

Cross(p, q) ==
    <<p[2] * q[3] - p[3] * q[2], p[3] * q[1] - p[1] * q[3], p[1] * q[2] - p[2] * q[1]>>

\* the normal the corner order gives: (c1 - c0) x (c2 - c0)
Normal(q) == Cross(Sub3(Corners(q)[2], Corners(q)[1]), Sub3(Corners(q)[3], Corners(q)[1]))

Lo(q, a) == CHOOSE m \in {Corners(q)[c][a + 1] : c \in 1..4} :
                \A c \in 1..4 : m <= Corners(q)[c][a + 1]

Hi(q, a) == CHOOSE m \in {Corners(q)[c][a + 1] : c \in 1..4} :
                \A c \in 1..4 : m >= Corners(q)[c][a + 1]

\* the axis a quad is perpendicular to: the coordinate its four corners share
QuadAxis(q) == CHOOSE a \in 0..2 : Lo(q, a) = Hi(q, a)

\* A unit face is <<a, c>>: the unit square perpendicular to axis a whose
\* corner of least coordinates is the lattice point c; it separates the cell
\* c - e_a from the cell c.
Extent(q, a) == IF a = QuadAxis(q) THEN {Lo(q, a)} ELSE Lo(q, a)..(Hi(q, a) - 1)

\* the unit faces the q-th quad covers
QuadFaces(q) ==
    {<<QuadAxis(q), <<p1, p2, p3>>>> :
        p1 \in Extent(q, 0), p2 \in Extent(q, 1), p3 \in Extent(q, 2)}

\* the voxel of a cell; a cell outside the grid is empty
VoxelAt(c) ==
    IF /\ c[1] \in 0..(dims[1] - 1)
       /\ c[2] \in 0..(dims[2] - 1)
       /\ c[3] \in 0..(dims[3] - 1)
    THEN GridAt(rgba_data, dims, c)
    ELSE 0

Behind(f) == VoxelAt(Set3(f[2], f[1], Get3(f[2], f[1]) - 1))

Ahead(f) == VoxelAt(f[2])

\* a unit face separating a nonzero voxel from an empty cell
Visible(f) == (Behind(f) = 0) # (Ahead(f) = 0)

\* the colour of the solid voxel of a visible face
SolidColour(f) == IF Behind(f) # 0 THEN Behind(f) ELSE Ahead(f)

VisibleFaces ==
    {f \in (0..2) \X ((0..dims[1]) \X (0..dims[2]) \X (0..dims[3])) : Visible(f)}

UniformSolid == \E c \in Colours : \A m \in 1..Len(rgba_data) : rgba_data[m] = c

AllEmpty == \A m \in 1..Len(rgba_data) : rgba_data[m] = 0

SingleVoxel == Cardinality({m \in 1..Len(rgba_data) : rgba_data[m] # 0}) = 1

---------------------------------------------------------------------------
(* The codec.  A byte is a number in 0..255, a u32 a number below 2^32, and  *)
(* an f32 is its bit pattern, a u32: write_f32 and read_f32 move the four   *)
(* bytes of the pattern.  The values of the model stay below 2^31.          *)

VOXEL_MESH_MAGIC == <<86, 79, 88, 69, 76, 95, 77, 69, 83, 72>>

VOXEL_MESH_VERSION == <<0, 0, 0, 1>>

\* ByteWriter::write_u32 / write_f32: the four bytes, least significant first
U32Bytes(v) ==
    <<v % 256, (v \div 256) % 256, (v \div 65536) % 256, (v \div 16777216) % 256>>

\* ByteReader: n more bytes can be read at offset pos
CanRead(bytes, pos, n) == pos + n <= Len(bytes)

\* ByteReader::read::<N>: the n bytes at offset pos
ReadBytes(bytes, pos, n) == SubSeq(bytes, pos + 1, pos + n)

\* ByteReader::read_u32 / read_f32: the number of the four bytes at offset pos
ReadU32(bytes, pos) ==
    bytes[pos + 1] + 256 * bytes[pos + 2] + 65536 * bytes[pos + 3]
        + 16777216 * bytes[pos + 4]

\* ByteReader::new(data): it fails on a buffer too short for a reader.  How
\* short that is belongs to the reader; a buffer holding the whole header is
\* long enough.
ReaderNewOutcomes(bytes) ==
    IF Len(bytes) >= Len(VOXEL_MESH_MAGIC) + Len(VOXEL_MESH_VERSION)
    THEN {TRUE}
    ELSE {TRUE, FALSE}

Ok(m) == [tag |-> "Ok", mesh |-> m]

Err(e) == [tag |-> e]

InvalidVersion(lib, file) ==
    [tag |-> "InvalidVersion", lib_version |-> lib, file_version |-> file]

\* the four writes of one vertex
EncodeVertexYY(v) ==
    U32Bytes(v.position[1]) \o U32Bytes(v.position[2]) \o U32Bytes(v.position[2])
        \o U32Bytes(v.rgba)

EncodeVertex(v) ==
    U32Bytes(v.position[1]) \o U32Bytes(v.position[2]) \o U32Bytes(v.position[3])
        \o U32Bytes(v.rgba)

RECURSIVE EncodeVertices(_)
EncodeVertices(vs) ==
    IF vs = <<>> THEN <<>> ELSE EncodeVertex(Head(vs)) \o EncodeVertices(Tail(vs))

RECURSIVE EncodeIndices(_)
EncodeIndices(is) ==
    IF is = <<>> THEN <<>> ELSE U32Bytes(Head(is)) \o EncodeIndices(Tail(is))

\* VoxelMesh::encode
encode(m) ==
    VOXEL_MESH_MAGIC \o VOXEL_MESH_VERSION
        \o U32Bytes(Len(m.vertices)) \o EncodeVertices(m.vertices)
        \o U32Bytes(Len(m.indices)) \o EncodeIndices(m.indices)

\* the vertex read at offset pos
DecodeVertex(bytes, pos) ==
    Vertex_new(<<ReadU32(bytes, pos), ReadU32(bytes, pos + 4), ReadU32(bytes, pos + 8)>>,
               ReadU32(bytes, pos + 12))

\* decode from `let indices_len = reader.read_u32()?` on, the reader at pos:
\* a read past the end makes the closure return None
DecodeIndicesPartial(bytes, pos, verts) ==
    IF ~CanRead(bytes, pos, 4) THEN Err("EOI")
    ELSE LET indices_len == ReadU32(bytes, pos)
             have == IF (Len(bytes) - (pos + 4)) \div 4 < indices_len
                     THEN (Len(bytes) - (pos + 4)) \div 4 ELSE indices_len
         IN  Ok([vertices |-> verts,
                 indices  |-> [t \in 1..have |-> ReadU32(bytes, pos + 4 * t)]])

DecodeIndices(bytes, pos, verts) ==
    IF ~CanRead(bytes, pos, 4) THEN Err("EOI")
    ELSE LET indices_len == ReadU32(bytes, pos)
         IN  IF (Len(bytes) - (pos + 4)) \div 4 < indices_len THEN Err("EOI")
             ELSE Ok([vertices |-> verts,
                      indices  |-> [t \in 1..indices_len |-> ReadU32(bytes, pos + 4 * t)]])

\* decode from `let vertices_len = reader.read_u32()?` on, the reader at pos
DecodeVertices(bytes, pos) ==
    IF ~CanRead(bytes, pos, 4) THEN Err("EOI")
    ELSE LET vertices_len == ReadU32(bytes, pos)
         IN  IF (Len(bytes) - (pos + 4)) \div 16 < vertices_len THEN Err("EOI")
             ELSE DecodeIndices(bytes, pos + 4 + 16 * vertices_len,
                     [t \in 1..vertices_len |-> DecodeVertex(bytes, pos + 4 + 16 * (t - 1))])

\* the magic and version checks, in the other order
DecodeHeaderVersionFirst(bytes) ==
    IF ~CanRead(bytes, 0, 14) THEN Err("EOI")
    ELSE IF ReadBytes(bytes, 10, 4) # VOXEL_MESH_VERSION
         THEN InvalidVersion(VOXEL_MESH_VERSION, ReadBytes(bytes, 10, 4))
    ELSE IF ReadBytes(bytes, 0, 10) # VOXEL_MESH_MAGIC THEN Err("InvalidMagicValue")
    ELSE DecodeVertices(bytes, 14)

\* decode from `let magic = reader.read()?` on
DecodeHeader(bytes) ==
    IF ~CanRead(bytes, 0, 10) THEN Err("EOI")
    ELSE IF ReadBytes(bytes, 0, 10) # VOXEL_MESH_MAGIC THEN Err("InvalidMagicValue")
    ELSE IF ~CanRead(bytes, 10, 4) THEN Err("EOI")
    ELSE IF ReadBytes(bytes, 10, 4) # VOXEL_MESH_VERSION
         THEN InvalidVersion(VOXEL_MESH_VERSION, ReadBytes(bytes, 10, 4))
    ELSE DecodeVertices(bytes, 14)

\* VoxelMesh::decode; reader_ok: ByteReader::new returned a reader
decode(bytes, reader_ok) ==
    IF ~reader_ok THEN Err("InvalidByteWriter") ELSE DecodeHeader(bytes)

---------------------------------------------------------------------------
(* The codec's caller: encode a mesh, damage the bytes or not, decode *)

\* f32 bit patterns: 0.0, 0.5, 1.0 and a NaN
F32 == [zero |-> 0, half |-> 1056964608, one |-> 1065353216, nan |-> 2143289344]

VertexSamples ==
    { Vertex_new(<<F32.zero, F32.one, F32.half>>, 16909060),
      Vertex_new(<<F32.nan, F32.half, F32.one>>, 255) }

IndexSamples == {1, 66051}

SeqsUpTo(S, n) == UNION {[1..k -> S] : k \in 0..n}

Meshes ==
    {[vertices |-> vs, indices |-> is] :
        vs \in SeqsUpTo(VertexSamples, MaxVerts), is \in SeqsUpTo(IndexSamples, MaxIdx)}

\* let file = mesh.encode();
Encode ==
    /\ cpc = "mesh"
    /\ data' = encode(mesh)
    /\ cpc' = "bytes"
    /\ UNCHANGED <<rgba_data, dims, vertices, indices, pc, quad_log, k0, i0,
                   mesh, result, tampered>>

\* the bytes are cut to a proper prefix
Truncate ==
    /\ cpc = "bytes"
    /\ tampered = {}
    /\ \E n \in 0..(Len(data) - 1) : data' = SubSeq(data, 1, n)
    /\ tampered' = {"cut"}
    /\ UNCHANGED <<rgba_data, dims, vertices, indices, pc, quad_log, k0, i0,
                   mesh, result, cpc>>

\* one byte of the region first..last is replaced by another value
Corrupt(what, first, last) ==
    /\ cpc = "bytes"
    /\ what \notin tampered
    /\ Len(data) >= last
    /\ \E at \in first..last : \E b \in {9} \ {data[at]} :
           data' = [data EXCEPT ![at] = b]
    /\ tampered' = tampered \cup {what}
    /\ UNCHANGED <<rgba_data, dims, vertices, indices, pc, quad_log, k0, i0,
                   mesh, result, cpc>>

CorruptMagic == Corrupt("magic", 1, 10)

CorruptVersion == Corrupt("version", 11, 14)

\* the low byte of the vertex count
CorruptBody == Corrupt("body", 15, 15)

\* VoxelMesh::decode(&data)
Decode ==
    /\ cpc = "bytes"
    /\ \E reader_ok \in ReaderNewOutcomes(data) : result' = decode(data, reader_ok)
    /\ cpc' = "decoded"
    /\ UNCHANGED <<rgba_data, dims, vertices, indices, pc, quad_log, k0, i0,
                   mesh, data, tampered>>

InitCodec ==
    /\ mesh \in Meshes
    /\ data = <<>>
    /\ result = [tag |-> "none"]
    /\ cpc = "mesh"
    /\ tampered = {}
    /\ rgba_data = <<0>>
    /\ dims = <<1, 1, 1>>
    /\ vertices = <<>>
    /\ indices = <<>>
    /\ pc = "off"
    /\ quad_log = <<>>
    /\ k0 = 0
    /\ i0 = 0

NextCodec == Encode \/ Truncate \/ CorruptMagic \/ CorruptVersion \/ CorruptBody \/ Decode

SpecCodec == InitCodec /\ [][NextCodec]_vars

---------------------------------------------------------------------------
(* The claims *)

ExactVisibleGeometry ==
    pc = "done" =>
        /\ \A f \in VisibleFaces :
               Cardinality({q \in 1..NumQuads : f \in QuadFaces(q)}) = 1
        /\ \A q \in 1..NumQuads : \A f \in QuadFaces(q) :
               Visible(f) /\ SolidColour(f) = QuadColour(q)

\* C3 (totality): greedy_mesh never panics on a grid of X * Y * Z cells with
\* positive dims.
Totality == pc # "panic"

\* C4 (merge correctness): a grid whose voxels all have the same nonzero
\* colour makes greedy_mesh return with exactly 6 quads: 24 vertices and 36
\* indices.
UniformBlockSixQuads ==
    (UniformSolid /\ pc # "idle") =>
        (pc = "done" /\ Len(vertices) = 24 /\ Len(indices) = 36)

\* C5 (single voxel): a grid with exactly one nonzero cell makes greedy_mesh
\* return with exactly 6 quads, 24 vertices and 36 indices, one quad on each
\* face of that voxel's unit cube.
SingleVoxelSixQuads ==
    (SingleVoxel /\ pc # "idle") =>
        /\ pc = "done"
        /\ Len(vertices) = 24
        /\ Len(indices) = 36
        /\ \A f \in VisibleFaces : \E q \in 1..NumQuads : QuadFaces(q) = {f}

\* C6 (index validity): with buffers that were empty at the call, the vertex
\* count is a multiple of 4, the index count a multiple of 6 and 6/4 of the
\* vertex count, every index is below the vertex count, the q-th quad has the
\* indices 4q, 4q+1, 4q+2, 4q+2, 4q+3, 4q, and an all-zero grid makes the call
\* return with both buffers empty.
IndexValidity ==
    /\ Len(vertices) % 4 = 0
    /\ Len(indices) % 6 = 0
    /\ 4 * Len(indices) = 6 * Len(vertices)
    /\ \A p \in 1..Len(indices) : indices[p] >= 0 /\ indices[p] < Len(vertices)
    /\ \A q \in 0..((Len(vertices) \div 4) - 1) :
           /\ indices[6 * q + 1] = 4 * q
           /\ indices[6 * q + 2] = 4 * q + 1
           /\ indices[6 * q + 3] = 4 * q + 2
           /\ indices[6 * q + 4] = 4 * q + 2
           /\ indices[6 * q + 5] = 4 * q + 3
           /\ indices[6 * q + 6] = 4 * q
    /\ (AllEmpty /\ pc # "idle") =>
           (pc = "done" /\ vertices = <<>> /\ indices = <<>>)

\* greedy_mesh returned with several quads in buffers that were empty
IndexValidityWitness ==
    /\ pc = "done"
    /\ k0 = 0
    /\ Len(vertices) >= 8
    /\ Len(indices) >= 12

\* C7 (decode validation order): on a buffer of at least 14 bytes, a magic
\* that differs gives InvalidMagicValue whatever the version and the rest
\* are; the right magic with a version other than [0,0,0,1] gives
\* InvalidVersion with lib_version [0,0,0,1] and file_version bytes 10..14.
DecodeValidationOrder ==
    (cpc = "decoded" /\ Len(data) >= 14) =>
        /\ SubSeq(data, 1, 10) # VOXEL_MESH_MAGIC =>
               result = [tag |-> "InvalidMagicValue"]
        /\ (SubSeq(data, 1, 10) = VOXEL_MESH_MAGIC /\ SubSeq(data, 11, 14) # <<0, 0, 0, 1>>) =>
               result = [tag |-> "InvalidVersion",
                         lib_version |-> <<0, 0, 0, 1>>,
                         file_version |-> SubSeq(data, 11, 14)]

\* a buffer with both a wrong magic and a wrong version was decoded
DecodeValidationOrderWitness ==
    /\ cpc = "decoded"
    /\ Len(data) >= 14
    /\ SubSeq(data, 1, 10) # VOXEL_MESH_MAGIC
    /\ SubSeq(data, 11, 14) # <<0, 0, 0, 1>>
    /\ result.tag = "InvalidMagicValue"

\* C8 (truncation): decoding a proper prefix of an encoded mesh, when the
\* prefix is long enough for ByteReader::new to give a reader, returns the
\* EOI error: never Ok, never another error.
TruncationIsEndOfInput ==
    (cpc = "decoded" /\ tampered = {"cut"} /\ result.tag # "InvalidByteWriter") =>
        result = [tag |-> "EOI"]

\* a prefix cut inside the index array was decoded
TruncationWitness ==
    /\ cpc = "decoded"
    /\ tampered = {"cut"}
    /\ Len(mesh.indices) >= 1
    /\ Len(data) > Len(encode(mesh)) - 4
    /\ result.tag = "EOI"

\* C9 (append-only output): a call of greedy_mesh leaves the grid as it was,
\* keeps every element the two buffers held, in place, and every index it
\* appends lies in [k0, Len(vertices)), k0 the vertex count at the call; so
\* indices that were all below the vertex count before the call still are.
AppendOnlyStep ==
    /\ rgba_data' = rgba_data
    /\ dims' = dims
    /\ Len(vertices') >= Len(vertices)
    /\ SubSeq(vertices', 1, Len(vertices)) = vertices
    /\ Len(indices') >= Len(indices)
    /\ SubSeq(indices', 1, Len(indices)) = indices
    /\ \A p \in (Len(indices) + 1)..Len(indices') :
           indices'[p] >= Len(vertices) /\ indices'[p] < Len(vertices')
    /\ (\A p \in 1..Len(indices) : indices[p] < Len(vertices)) =>
           (\A p \in 1..Len(indices') : indices'[p] < Len(vertices'))

AppendOnly == [][AppendOnlyStep]_vars

\* greedy_mesh returned after drawing quads into buffers that held vertices
\* and indices already
AppendOnlyWitness ==
    /\ pc = "done"
    /\ k0 > 0
    /\ i0 > 0
    /\ Len(vertices) > k0
    /\ Len(indices) > i0

\* C10 (winding): for every quad, on every axis d, with u = (d+1)%3 and
\* v = (d+2)%3: a positive-facing quad has the corners o, o+du, o+du+dv, o+dv
\* and a negative-facing quad the reverse order, du along u and dv along v;
\* the normal (c1 - c0) x (c2 - c0) points along d, to +d for a positive-facing
\* and to -d for a negative-facing quad.
WindingConsistency ==
    \A q \in 1..Len(quad_log) :
        LET dd  == quad_log[q].d
            neg == quad_log[q].neg_d
            u   == (dd + 1) % 3
            v   == (dd + 2) % 3
            c   == Corners(q)
            o   == IF neg THEN c[4] ELSE c[1]
            du  == IF neg THEN Sub3(c[3], c[4]) ELSE Sub3(c[2], c[1])
            dv  == IF neg THEN Sub3(c[1], c[4]) ELSE Sub3(c[4], c[1])
            far == IF neg THEN c[2] ELSE c[3]
            nn  == Normal(q)
        IN  /\ far = Add3(Add3(o, du), dv)
            /\ \A a \in 0..2 : a # u => Get3(du, a) = 0
            /\ \A a \in 0..2 : a # v => Get3(dv, a) = 0
            /\ Get3(du, u) > 0
            /\ Get3(dv, v) > 0
            /\ Get3(nn, u) = 0
            /\ Get3(nn, v) = 0
            /\ IF neg THEN Get3(nn, dd) < 0 ELSE Get3(nn, dd) > 0

=============================================================================
